---- MODULE Spec2Model ----
(***************************************************************************)
(* deploy.js: submit a pre-signed Ethereum contract creation through the   *)
(* Hedera SDK, after making sure the signer's hollow (alias) account holds *)
(* a minimum balance, and report the create-address of (signer, nonce).    *)
(*                                                                         *)
(* The script is one process; Inst is the set of invocations of it that    *)
(* the model lets run (one after the other, or interleaved at their await  *)
(* points) against one ledger and one .env file.                           *)
(***************************************************************************)
EXTENDS Integers, Sequences, FiniteSets, TLC

(* ---- bounds of the model ---- *)
MaxMinHbar == 2
MaxBalSteps == 3
MaxNonce == 1

Inst == {"run1", "run2"}

(* ---- values ---- *)
Unset == "<undefined>"
None == "<none>"
\* "no number yet" in a numeric field.
NoNum == 0 - 1

\* 1 hbar = 1e8 tinybars (Hbar.toTinybars; the script divides by 1e8 to print).
TinybarsPerHbar == 100000000
\* Granularity of the ledger balances the model enumerates, and of the gas fee.
BalStep == TinybarsPerHbar \div 2

VARIABLES env, minHbar, ledger, pc, exitCode, log, calls, local, hist

vars == <<env, minHbar, ledger, pc, exitCode, log, calls, local, hist>>


(***************************************************************************)
(* 1. ENV / CONFIG                                                         *)
(***************************************************************************)

\* The values the model lets .env hold for each setting.
OperatorIds == {Unset, "", "0.0.1001", "not-an-id"}
OperatorKeys == {Unset, "ecdsa-der", "ed25519-der", "not-a-key"}
Networks == {Unset, "MAINNET", "previewnet", "local-node", "devnet"}
SignedTxs == {Unset, "0x-unsigned"}

\* The Ed25519 fallback is tried on the default network only.
Envs ==
  {e \in [OPERATOR_ID : OperatorIds, OPERATOR_KEY : OperatorKeys,
          HEDERA_NETWORK : Networks, SIGNED_TX : SignedTxs] :
     e.OPERATOR_KEY = "ed25519-der" => e.HEDERA_NETWORK = Unset}

\* JavaScript truthiness of an environment string: undefined and "" are falsy.
Truthy(v) == v \notin {Unset, ""}

\* if (!OPERATOR_ID_STR || !OPERATOR_KEY_STR)
\* (variant: && in place of ||)
MissingConfigBoth(e) == ~Truthy(e.OPERATOR_ID) /\ ~Truthy(e.OPERATOR_KEY)
MissingConfig(e) == ~Truthy(e.OPERATOR_ID) \/ ~Truthy(e.OPERATOR_KEY)

\* PrivateKey.fromStringECDSA, falling back to PrivateKey.fromStringED25519;
\* None when both throw.
ParseOperatorKey(s) ==
  CASE s = "ecdsa-der" -> "ECDSA"
    [] s = "ed25519-der" -> "ED25519"
    [] OTHER -> None

\* AccountId.fromString: shard.realm.num; num is NoNum when it throws.
AccountIdFromString(s) ==
  IF s = "0.0.1001"
  THEN [shard |-> 0, realm |-> 0, num |-> 1001]
  ELSE [shard |-> 0, realm |-> 0, num |-> NoNum]

\* String.prototype.toLowerCase on the names the model uses.
ToLowerCase(s) ==
  CASE s = "MAINNET" -> "mainnet"
    [] OTHER -> s

\* const NETWORK = (process.env.HEDERA_NETWORK || "testnet").toLowerCase()
NetworkOf(e) ==
  ToLowerCase(IF Truthy(e.HEDERA_NETWORK) THEN e.HEDERA_NETWORK ELSE "testnet")

NETWORK == NetworkOf(env)

\* Client.forName(NETWORK): the network names the SDK client builds a client
\* for; any other name makes it throw "unknown network".
ClientNetworkNames == {"mainnet", "testnet", "previewnet", "local-node"}
ClientForName(name) == IF name \in ClientNetworkNames THEN name ELSE None

\* The built-in presigned transaction (Multicall3), used when SIGNED_TX is unset.
DefaultSignedTx == "0xf90f538085174876e800830f42408080b90f00...e086"
SIGNEDTX(e) == IF Truthy(e.SIGNED_TX) THEN e.SIGNED_TX ELSE DefaultSignedTx

(***************************************************************************)
(* 2. HELPERS (pure parts)                                                 *)
(***************************************************************************)

\* ethers.Transaction.from(raw).from: the recovered sender, None when the
\* blob carries no signature.
ParsedFrom(raw) ==
  IF raw = DefaultSignedTx THEN "0x05f32b3cc3888453ff71b01135b34ff8e41263f2"
  ELSE None

\* ethers.getAddress: the EIP-55 checksummed form.
GetAddress(a) ==
  CASE a = "0x05f32b3cc3888453ff71b01135b34ff8e41263f2"
         -> "0x05f32B3cC3888453ff71B01135B34FF8e41263F2"
    [] OTHER -> a

\* getSignerAddressFromSignedTx: None stands for the thrown Error.
getSignerAddressFromSignedTx(raw) ==
  IF ParsedFrom(raw) = None THEN None ELSE GetAddress(ParsedFrom(raw))

\* AccountId.fromEvmAddress(0, 0, signerEvmAddress)
AliasAccountId(addr) == [shard |-> 0, realm |-> 0, evmAddress |-> addr]

\* Hbar.from(minHbar).toTinybars().toNumber()
MinTinybars(mh) == mh * TinybarsPerHbar

Max(a, b) == IF a >= b THEN a ELSE b

\* if (exists && currentTinybars >= minTinybars)
\* (variant: > in place of >=)
SufficientStrict(ex, cur, min) == ex /\ cur > min
Sufficient(ex, cur, min) == ex /\ cur >= min

\* needTinybars = Math.max(minTinybars - currentTinybars, 0);
\* topUp = Hbar.fromTinybars(needTinybars || minTinybars)
\* (variant: always the full minimum)
TopUpFull(cur, min) == min
TopUp(cur, min) ==
  LET needTinybars == Max(min - cur, 0)
  IN  IF needTinybars # 0 THEN needTinybars ELSE min

\* The minimal big-endian bytes of a nonce, as RLP encodes an integer
\* (0 is the empty byte string).
RECURSIVE NonceBytes(_)
NonceBytes(n) ==
  IF n = 0 THEN <<>> ELSE Append(NonceBytes(n \div 256), n % 256)

\* (variant: the nonce left out of the hashed list)
getCreateAddressNoNonce(from, nonce) == [keccak256 |-> <<from, <<>>>>]

\* ethers.getCreateAddress({from, nonce}): keccak256(rlp([from, nonce]))[12:].
\* The hash is kept symbolic: the address is named by the RLP list it hashes.
getCreateAddress(from, nonce) ==
  [keccak256 |-> <<from, NonceBytes(nonce)>>]

\* explorerNet: NETWORK === "mainnet" ? "mainnet" : NETWORK === "testnet" ?
\* "testnet" : "previewnet"
ExplorerNet(net) ==
  IF net = "mainnet" THEN "mainnet"
  ELSE IF net = "testnet" THEN "testnet"
  ELSE "previewnet"

ExplorerUrl(net, txid) ==
  <<"https://hashscan.io/", ExplorerNet(net), "/transaction/", txid>>

\* console.log / console.error lines, in the order they are written.
Out(text, arg) == [stream |-> "stdout", text |-> text, arg |-> arg]
Err(text, arg) == [stream |-> "stderr", text |-> text, arg |-> arg]

\* A network call the process issued, with what it sent and what came back.
Call(op, arg, ret) == [op |-> op, arg |-> arg, ret |-> ret]


(***************************************************************************)
(* The ledger, as the script and its README rely on it.                    *)
(***************************************************************************)

\* The alias account is absent (hollow account not created yet), or present
\* with a balance and an ethereumNonce. operatorDebited, aliasCredited and
\* openingBalance are the ledger's history: the totals moved by the funding
\* transfers, and the alias balance before any run started.
LedgerInit ==
  {[exists |-> FALSE, balance |-> 0, nonce |-> 0, operatorDebited |-> 0,
    aliasCredited |-> 0, txCount |-> 0, contracts |-> {}, openingBalance |-> 0]}
  \cup
  {[exists |-> TRUE, balance |-> k * BalStep, nonce |-> n, operatorDebited |-> 0,
    aliasCredited |-> 0, txCount |-> 0, contracts |-> {},
    openingBalance |-> k * BalStep] :
     k \in 0..MaxBalSteps, n \in 0..MaxNonce}

\* "The contract address for a CREATE transaction is deterministic:
\* keccak256(rlp([from, nonce]))[12:], where nonce is the sender's
\* ethereumNonce BEFORE the create."
LedgerCreateAddress(from, nonce) == [keccak256 |-> <<from, NonceBytes(nonce)>>]

\* Receipt statuses the model lets the ledger return.
TransferStatuses == {"SUCCESS", "INSUFFICIENT_PAYER_BALANCE"}
EthereumStatuses == {"SUCCESS", "CONTRACT_REVERT_EXECUTED"}

\* Gas the ledger charges the sender for an Ethereum transaction (the relay
\* may cover all of it from the gas allowance).
GasFees == {0, BalStep}

(***************************************************************************)
(* State                                                                   *)
(***************************************************************************)

NoAccount == [shard |-> 0, realm |-> 0, evmAddress |-> None]
NoTransactionId == [payer |-> None, seq |-> NoNum]
NoAddress == [keccak256 |-> <<>>]

InitLocal ==
  [client |-> None, signerEvmAddress |-> None, hollowAccountId |-> NoAccount,
   exists |-> FALSE, currentTinybars |-> 0, topUp |-> NoNum,
   fundStatus |-> None, nonceBefore |-> NoNum, status |-> None,
   transactionId |-> NoTransactionId, contractAddress |-> NoAddress]

\* History kept for the properties: what the ledger did with this run's
\* transactions, and what else happened on the signer's account meanwhile.
InitHist ==
  [execNonce |-> NoNum, deployedAt |-> NoAddress, disturbed |-> FALSE,
   sinceFund |-> "none", rerunOf |-> {}]

Init ==
  /\ env \in Envs
  /\ minHbar \in 1..MaxMinHbar
  /\ ledger \in LedgerInit
  /\ pc = [i \in Inst |-> "load"]
  /\ exitCode = [i \in Inst |-> NoNum]
  /\ log = [i \in Inst |-> <<>>]
  /\ calls = [i \in Inst |-> <<>>]
  /\ local = [i \in Inst |-> InitLocal]
  /\ hist = [i \in Inst |-> InitHist]

\* process.exit(code) after writing `lines`.
Exit(i, code, lines) ==
  /\ pc' = [pc EXCEPT ![i] = "exited"]
  /\ exitCode' = [exitCode EXCEPT ![i] = code]
  /\ log' = [log EXCEPT ![i] = @ \o lines]

\* main().catch((err) => { console.error("Error:", err); process.exit(1); })
Fatal(i, lines, err) == Exit(i, 1, lines \o <<Err("Error:", err)>>)

Goto(i, label, lines) ==
  /\ pc' = [pc EXCEPT ![i] = label]
  /\ log' = [log EXCEPT ![i] = @ \o lines]
  /\ UNCHANGED exitCode

(***************************************************************************)
(* 1. ENV / CONFIG: module load                                            *)
(***************************************************************************)
Load(i) ==
  /\ pc[i] = "load"
  /\ IF MissingConfig(env)
     THEN /\ Exit(i, 1, <<Err("Missing OPERATOR_ID or OPERATOR_KEY in environment.", None)>>)
          /\ UNCHANGED local
     ELSE IF \/ ParseOperatorKey(env.OPERATOR_KEY) = None
             \/ AccountIdFromString(env.OPERATOR_ID).num = NoNum
             \/ ClientForName(NETWORK) = None
          THEN \* an exception thrown at module level: node prints it and exits 1
               /\ Exit(i, 1, <<Err("Uncaught exception", None)>>)
               /\ UNCHANGED local
          ELSE /\ Goto(i, "main", <<>>)
               /\ local' = [local EXCEPT ![i].client = ClientForName(NETWORK)]
  /\ UNCHANGED <<env, minHbar, ledger, calls, hist>>

(***************************************************************************)
(* 3. MAIN FLOW, up to the first await                                     *)
(***************************************************************************)
Decode(i) ==
  /\ pc[i] = "main"
  /\ LET signerEvmAddress == getSignerAddressFromSignedTx(SIGNEDTX(env))
         head == <<Out("Network:", NETWORK)>>
     IN  IF signerEvmAddress = None
         THEN /\ Fatal(i, head, <<"Cannot derive signer (from) address from signed transaction.", None>>)
              /\ UNCHANGED local
         ELSE /\ Goto(i, "balanceQuery",
                      head \o <<Out("Signer (from presigned tx):", signerEvmAddress)>>)
              /\ local' = [local EXCEPT ![i].signerEvmAddress = signerEvmAddress]
  /\ UNCHANGED <<env, minHbar, ledger, calls, hist>>


(***************************************************************************)
(* ensureHollowHasMinHbar                                                  *)
(***************************************************************************)

\* The balance query and the decision taken on its answer. The query fails
\* when the alias account does not exist yet ("If query succeeds, account
\* exists"); the catch leaves currentTinybars at 0.
BalanceQuery(i) ==
  /\ pc[i] = "balanceQuery"
  /\ LET aliasAccountId == AliasAccountId(local[i].signerEvmAddress)
         minTinybars == MinTinybars(minHbar)
         exists == ledger.exists
         currentTinybars == IF exists THEN ledger.balance ELSE 0
         query == Call("AccountBalanceQuery", aliasAccountId,
                       [ok |-> exists, tinybars |-> currentTinybars])
     IN  /\ calls' = [calls EXCEPT ![i] = Append(@, query)]
         /\ IF Sufficient(exists, currentTinybars, minTinybars)
            THEN /\ Goto(i, "nonceBefore",
                         <<Out("Hollow account already exists with sufficient balance:",
                               currentTinybars)>>)
                 /\ local' = [local EXCEPT ![i].exists = exists,
                                           ![i].currentTinybars = currentTinybars,
                                           ![i].hollowAccountId = aliasAccountId]
            ELSE /\ Goto(i, "transfer",
                         <<Out("Funding hollow (alias) account with",
                               TopUp(currentTinybars, minTinybars))>>)
                 /\ local' = [local EXCEPT ![i].exists = exists,
                                           ![i].currentTinybars = currentTinybars,
                                           ![i].topUp = TopUp(currentTinybars, minTinybars)]
  /\ hist' = [hist EXCEPT ![i].rerunOf =
                {k \in Inst \ {i} : hist[k].sinceFund = "clean"}]
  /\ UNCHANGED <<env, minHbar, ledger>>

\* addHbarTransfer(OPERATOR_ID, topUp.negated()).addHbarTransfer(aliasAccountId, topUp)
HbarTransfers(operator, alias, topUp) ==
  <<[accountId |-> operator, amount |-> 0 - topUp],
    [accountId |-> alias, amount |-> topUp]>>

\* tx.execute(client): the ledger applies the transfer list, or rejects it.
\* A credit to an alias with no account creates the hollow account.
TransferExecute(i) ==
  /\ pc[i] = "transfer"
  /\ \E st \in TransferStatuses :
       LET aliasAccountId == AliasAccountId(local[i].signerEvmAddress)
           transfers == HbarTransfers(env.OPERATOR_ID, aliasAccountId, local[i].topUp)
           id == [payer |-> env.OPERATOR_ID, seq |-> ledger.txCount]
       IN  /\ calls' = [calls EXCEPT ![i] =
                          Append(@, Call("TransferTransaction.execute", transfers, id))]
           /\ ledger' =
                IF st = "SUCCESS"
                THEN [ledger EXCEPT !.exists = TRUE,
                                    !.balance = @ + transfers[2].amount,
                                    !.aliasCredited = @ + transfers[2].amount,
                                    !.operatorDebited = @ - transfers[1].amount,
                                    !.txCount = @ + 1]
                ELSE [ledger EXCEPT !.txCount = @ + 1]
           /\ local' = [local EXCEPT ![i].fundStatus = st]
           /\ hist' = [hist EXCEPT ![i].sinceFund =
                         IF st = "SUCCESS" THEN "clean" ELSE @]
  /\ Goto(i, "transferReceipt", <<>>)
  /\ UNCHANGED <<env, minHbar>>

\* if (receipt.status.toString() !== "SUCCESS")
\* (variant: the status is not looked at)
FundingFailedNever(st) == FALSE
FundingFailed(st) == st # "SUCCESS"

\* resp.getReceipt(client) and the check of its status.
TransferReceipt(i) ==
  /\ pc[i] = "transferReceipt"
  /\ calls' = [calls EXCEPT ![i] =
                 Append(@, Call("TransferTransaction.getReceipt", None,
                                local[i].fundStatus))]
  /\ IF FundingFailed(local[i].fundStatus)
     THEN /\ Fatal(i, <<>>, <<"Funding failed:", local[i].fundStatus>>)
          /\ UNCHANGED local
     ELSE /\ Goto(i, "nonceBefore", <<Out("Hollow account funded/created.", None)>>)
          /\ local' = [local EXCEPT ![i].hollowAccountId =
                         AliasAccountId(local[i].signerEvmAddress)]
  /\ UNCHANGED <<env, minHbar, ledger, hist>>


(***************************************************************************)
(* getEthereumNonce and the rest of main                                   *)
(***************************************************************************)

\* The answer of an AccountInfoQuery on the alias account: the ledger's
\* ethereumNonce (Number(info.ethereumNonce)), or a failure (the query
\* throws: mirror lag or similar).
InfoAnswers == {[ok |-> TRUE, nonce |-> ledger.nonce], [ok |-> FALSE, nonce |-> NoNum]}

\* 2) nonceBefore = await getEthereumNonce(hollowAccountId)
NonceBefore(i) ==
  /\ pc[i] = "nonceBefore"
  /\ \E ans \in InfoAnswers :
       /\ calls' = [calls EXCEPT ![i] =
                      Append(@, Call("AccountInfoQuery", local[i].hollowAccountId, ans))]
       /\ IF ans.ok
          THEN /\ Goto(i, "submit",
                       <<Out("Signer ethereumNonce BEFORE deployment:", ans.nonce),
                         Out("Submitting presigned Ethereum transaction (contract creation)...", None)>>)
               /\ local' = [local EXCEPT ![i].nonceBefore = ans.nonce]
          ELSE /\ Fatal(i, <<>>, <<"AccountInfoQuery failed", None>>)
               /\ UNCHANGED local
  /\ UNCHANGED <<env, minHbar, ledger, hist>>

\* 3) ethTx.execute(client): the ledger executes the presigned creation. On
\* SUCCESS the contract is created at the create-address of the signer and
\* the signer's current ethereumNonce, and "each subsequent successful
\* create increments nonce by 1". Gas may be charged to the signer.
Submit(i) ==
  /\ pc[i] = "submit"
  /\ \E st \in EthereumStatuses, gas \in GasFees :
       LET id == [payer |-> env.OPERATOR_ID, seq |-> ledger.txCount]
           at == LedgerCreateAddress(local[i].signerEvmAddress, ledger.nonce)
       IN  /\ gas <= ledger.balance
           /\ calls' = [calls EXCEPT ![i] =
                          Append(@, Call("EthereumTransaction.execute", SIGNEDTX(env), id))]
           /\ ledger' =
                IF st = "SUCCESS"
                THEN [ledger EXCEPT !.contracts = @ \cup {at},
                                    !.nonce = @ + 1,
                                    !.balance = @ - gas,
                                    !.txCount = @ + 1]
                ELSE [ledger EXCEPT !.balance = @ - gas, !.txCount = @ + 1]
           /\ local' = [local EXCEPT ![i].status = st, ![i].transactionId = id]
           /\ hist' = [k \in Inst |->
                IF k = i
                THEN [hist[k] EXCEPT
                        !.execNonce = ledger.nonce,
                        !.deployedAt = IF st = "SUCCESS" THEN at ELSE @,
                        !.sinceFund = IF gas > 0 /\ @ = "clean" THEN "decreased" ELSE @]
                ELSE [hist[k] EXCEPT
                        !.disturbed = @ \/ (st = "SUCCESS" /\ pc[k] # "load"),
                        !.sinceFund = IF gas > 0 /\ @ = "clean" THEN "decreased" ELSE @]]
  /\ Goto(i, "receipt", <<>>)
  /\ UNCHANGED <<env, minHbar>>

\* if (status !== "SUCCESS")
\* (variant: the status is not looked at)
DeploymentFailedNever(st) == FALSE
DeploymentFailed(st) == st # "SUCCESS"

\* The nonce handed to getCreateAddress: nonce: nonceBefore
\* (variant: the nonce as a read after the submission returns it)
CreateNonceIncremented(l) == l.nonceBefore + 1
CreateNonce(l) == l.nonceBefore

\* executeResp.getReceipt(client), the status check, 4) the address and
\* 5) the first three result lines.
Receipt(i) ==
  /\ pc[i] = "receipt"
  /\ calls' = [calls EXCEPT ![i] =
                 Append(@, Call("EthereumTransaction.getReceipt", None, local[i].status))]
  /\ LET status == local[i].status
         head == <<Out("Transaction status:", status)>>
         contractAddress == getCreateAddress(local[i].signerEvmAddress, CreateNonce(local[i]))
     IN  IF DeploymentFailed(status)
         THEN /\ Fatal(i, head, <<"Contract deployment failed with status:", status>>)
              /\ UNCHANGED local
         ELSE /\ Goto(i, "nonceAfter",
                      head \o <<Out("Multicall3 deployed!", None),
                                Out("Contract Address:", contractAddress),
                                Out("Transaction ID  :", local[i].transactionId)>>)
              /\ local' = [local EXCEPT ![i].contractAddress = contractAddress]
  /\ UNCHANGED <<env, minHbar, ledger, hist>>

\* catch (_) { /* If mirror lag or similar, ignore */ }: what the handler of
\* the follow-up read does with the error.
\* (variants: the error is thrown on; the error is logged)
FollowUpCatchRethrow(err) == [rethrow |-> TRUE, lines |-> <<>>]
FollowUpCatchLogged(err) ==
  [rethrow |-> FALSE,
   lines |-> <<Err("Signer ethereumNonce AFTER deployment: read failed", err)>>]
FollowUpCatch(err) == [rethrow |-> FALSE, lines |-> <<>>]

\* The follow-up getEthereumNonce, the explorer line, and the end of the
\* process: main().then(() => { console.log("Done."); process.exit(0); }).
NonceAfter(i) ==
  /\ pc[i] = "nonceAfter"
  /\ \E ans \in InfoAnswers :
       LET handled == FollowUpCatch("AccountInfoQuery failed")
           tail == <<Out("Explorer:", ExplorerUrl(NETWORK, local[i].transactionId)),
                     Out("Done.", None)>>
       IN  /\ calls' = [calls EXCEPT ![i] =
                          Append(@, Call("AccountInfoQuery", local[i].hollowAccountId, ans))]
           /\ IF ans.ok
              THEN Exit(i, 0, <<Out("Signer ethereumNonce AFTER deployment:", ans.nonce)>> \o tail)
              ELSE IF handled.rethrow
                   THEN Fatal(i, handled.lines, <<"AccountInfoQuery failed", None>>)
                   ELSE Exit(i, 0, handled.lines \o tail)
  /\ UNCHANGED <<env, minHbar, ledger, local, hist>>

Next ==
  \E i \in Inst :
    \/ Load(i)
    \/ Decode(i)
    \/ BalanceQuery(i)
    \/ TransferExecute(i)
    \/ TransferReceipt(i)
    \/ NonceBefore(i)
    \/ Submit(i)
    \/ Receipt(i)
    \/ NonceAfter(i)

Spec == Init /\ [][Next]_vars


(***************************************************************************)
(* Properties                                                              *)
(***************************************************************************)

\* The positions in run i's call sequence of the calls named op.
CallsOf(i, op) == {k \in DOMAIN calls[i] : calls[i][k].op = op}

\* The positions in run i's output of the lines that start with text.
LinesOf(i, text) == {k \in DOMAIN log[i] : log[i][k].text = text}

Printed(i, text) == LinesOf(i, text) # {}

RECURSIVE Sum(_, _)
Sum(f, S) ==
  IF S = {} THEN 0
  ELSE LET x == CHOOSE x \in S : TRUE IN f[x] + Sum(f, S \ {x})

\* The transfer list of a funding of amount amt.
IsFundingOf(i, k, amt) ==
  /\ calls[i][k].arg[1].accountId = env.OPERATOR_ID
  /\ calls[i][k].arg[1].amount = 0 - amt
  /\ calls[i][k].arg[2].accountId = AliasAccountId(local[i].signerEvmAddress)
  /\ calls[i][k].arg[2].amount = amt

\* Exactly one transfer, of amt, is issued by run i: it is about to be sent
\* (the run stands at the execute call), or it is the only one sent.
OneTransferOf(i, amt) ==
  LET sent == CallsOf(i, "TransferTransaction.execute")
  IN  /\ local[i].topUp = amt
      /\ IF pc[i] = "transfer" THEN sent = {} ELSE Cardinality(sent) = 1
      /\ \A k \in sent : IsFundingOf(i, k, amt)

\* C1: for every threshold T and observed balance B, a run whose balance
\* query succeeded with B >= T issues no transfer and holds the account
\* reference; with B < T it issues exactly one transfer, of T - B; a run
\* whose balance query failed issues exactly one transfer, of T. What the
\* ledger debits the operator is what it credits the alias account, the sum
\* of the successful transfers.
C1_Provisioning ==
  /\ \A i \in Inst :
       \A q \in CallsOf(i, "AccountBalanceQuery") :
         LET T == minHbar * TinybarsPerHbar
             B == calls[i][q].ret.tinybars
         IN  /\ (calls[i][q].ret.ok /\ B >= T) =>
                   /\ CallsOf(i, "TransferTransaction.execute") = {}
                   /\ pc[i] \notin {"transfer", "transferReceipt"}
                   /\ local[i].hollowAccountId = AliasAccountId(local[i].signerEvmAddress)
             /\ (calls[i][q].ret.ok /\ B < T) => OneTransferOf(i, T - B)
             /\ ~calls[i][q].ret.ok => OneTransferOf(i, T)
  /\ ledger.operatorDebited = ledger.aliasCredited
  /\ ledger.operatorDebited =
       Sum([i \in Inst |-> IF local[i].fundStatus = "SUCCESS" THEN local[i].topUp ELSE 0],
           Inst)

\* A run that found the account with 0 < B < T and sent its one top-up.
C1_Witness ==
  \E i \in Inst :
    \E q \in CallsOf(i, "AccountBalanceQuery") :
      /\ calls[i][q].ret.ok
      /\ calls[i][q].ret.tinybars > 0
      /\ calls[i][q].ret.tinybars < minHbar * TinybarsPerHbar
      /\ Cardinality(CallsOf(i, "TransferTransaction.execute")) = 1
      /\ local[i].fundStatus = "SUCCESS"
      /\ pc[i] = "nonceBefore"


\* The position of run i's only submission call (0 when it has sent none).
SubmissionOf(i) ==
  LET sent == CallsOf(i, "EthereumTransaction.execute")
  IN  IF Cardinality(sent) = 1 THEN CHOOSE k \in sent : TRUE ELSE 0

\* C2: in every run that reports a contract address, the nonce given to the
\* create-address computation is the value returned by the single nonce
\* read that completed before the submission call; the read after the
\* submission is not used for it; and no nonce read ever falls between a
\* submission call and its receipt.
C2_NonceReadBeforeSubmission ==
  \A i \in Inst :
    /\ \A s \in CallsOf(i, "EthereumTransaction.execute") :
         (s + 1 \in DOMAIN calls[i]) =>
            calls[i][s + 1].op = "EthereumTransaction.getReceipt"
    /\ Printed(i, "Contract Address:") =>
         LET s == SubmissionOf(i)
             before == {k \in CallsOf(i, "AccountInfoQuery") : k < s}
         IN  /\ s # 0
             /\ Cardinality(before) = 1
             /\ \A k \in before :
                  /\ calls[i][k].ret.ok
                  /\ CreateNonce(local[i]) = calls[i][k].ret.nonce
                  /\ \A n \in LinesOf(i, "Contract Address:") :
                       log[i][n].arg =
                         [keccak256 |-> <<local[i].signerEvmAddress,
                                          NonceBytes(calls[i][k].ret.nonce)>>]

\* A run that reported an address and whose follow-up read returned a nonce
\* different from the one read before the submission.
C2_Witness ==
  \E i \in Inst :
    /\ Printed(i, "Contract Address:")
    /\ \E k \in CallsOf(i, "AccountInfoQuery") :
         /\ k > SubmissionOf(i)
         /\ calls[i][k].ret.ok
         /\ calls[i][k].ret.nonce # local[i].nonceBefore

\* C3: a run that reports a contract address, with no other creation on the
\* signer's account since the run started, reports the address at which the
\* ledger created the contract, the create-address of the signer and the
\* ethereumNonce N the ledger held when it executed the creation, and the
\* ledger's nonce for the signer is then N + 1.
C3_ReportedIsDeployed ==
  \A i \in Inst :
    (Printed(i, "Contract Address:") /\ ~hist[i].disturbed) =>
       /\ \A n \in LinesOf(i, "Contract Address:") :
            /\ log[i][n].arg = hist[i].deployedAt
            /\ log[i][n].arg \in ledger.contracts
       /\ hist[i].deployedAt =
            [keccak256 |-> <<local[i].signerEvmAddress, NonceBytes(hist[i].execNonce)>>]
       /\ ledger.nonce = hist[i].execNonce + 1

\* An undisturbed run that deployed at a nonce other than 0 and ended.
C3_Witness ==
  \E i \in Inst :
    /\ Printed(i, "Contract Address:")
    /\ ~hist[i].disturbed
    /\ hist[i].execNonce >= 1
    /\ exitCode[i] = 0

\* C4: when OPERATOR_ID or OPERATOR_KEY is absent (or empty), a started run
\* has ended with exit code 1 and the diagnostic as its only output, having
\* issued no network call and not decoded the signed transaction.
C4_MissingConfigExits ==
  \A i \in Inst :
    ((env.OPERATOR_ID \in {Unset, ""} \/ env.OPERATOR_KEY \in {Unset, ""})
       /\ pc[i] # "load") =>
       /\ pc[i] = "exited"
       /\ exitCode[i] = 1
       /\ Len(log[i]) = 1
       /\ log[i][1].stream = "stderr"
       /\ log[i][1].text = "Missing OPERATOR_ID or OPERATOR_KEY in environment."
       /\ calls[i] = <<>>
       /\ local[i].signerEvmAddress = None

\* A run that ended on a configuration with the identifier absent and the
\* key present.
C4_Witness ==
  \E i \in Inst :
    /\ env.OPERATOR_ID = Unset
    /\ env.OPERATOR_KEY = "ecdsa-der"
    /\ pc[i] = "exited"


\* The receipt status run i got for its submission (None before it got one).
SubmissionReceipt(i) ==
  LET got == CallsOf(i, "EthereumTransaction.getReceipt")
  IN  IF got = {} THEN None ELSE calls[i][CHOOSE k \in got : TRUE].ret

\* The receipt status run i got for its funding transfer (None before it got one).
FundingReceipt(i) ==
  LET got == CallsOf(i, "TransferTransaction.getReceipt")
  IN  IF got = {} THEN None ELSE calls[i][CHOOSE k \in got : TRUE].ret

\* The last line run i wrote is the top-level handler's "Error:" with msg.
EndsWithError(i, msg) ==
  /\ log[i] # <<>>
  /\ log[i][Len(log[i])].stream = "stderr"
  /\ log[i][Len(log[i])].text = "Error:"
  /\ log[i][Len(log[i])].arg[1] = msg

\* C5: a run whose submission receipt is not SUCCESS has ended with exit
\* code 1 on the submission error, has reported no contract address, no
\* transaction identifier and no explorer URL, has not made the follow-up
\* nonce read, and has submitted the blob exactly once.
C5_SubmissionFailureIsFatal ==
  \A i \in Inst :
    SubmissionReceipt(i) \notin {None, "SUCCESS"} =>
       /\ pc[i] = "exited"
       /\ exitCode[i] = 1
       /\ EndsWithError(i, "Contract deployment failed with status:")
       /\ ~Printed(i, "Contract Address:")
       /\ ~Printed(i, "Transaction ID  :")
       /\ ~Printed(i, "Explorer:")
       /\ ~Printed(i, "Done.")
       /\ local[i].contractAddress = NoAddress
       /\ Cardinality(CallsOf(i, "AccountInfoQuery")) = 1
       /\ Cardinality(CallsOf(i, "EthereumTransaction.execute")) = 1
       /\ calls[i][Len(calls[i])].op = "EthereumTransaction.getReceipt"

\* A run ended by a reverted creation, after a funding transfer of its own.
C5_Witness ==
  \E i \in Inst :
    /\ SubmissionReceipt(i) = "CONTRACT_REVERT_EXECUTED"
    /\ FundingReceipt(i) = "SUCCESS"
    /\ exitCode[i] = 1

\* C6: a run whose funding receipt is not SUCCESS has ended with exit code
\* 1 on the funding error; it sent that one transfer only, and no nonce
\* read, no submission and no contract address followed.
C6_FundingFailureIsFatal ==
  \A i \in Inst :
    FundingReceipt(i) \notin {None, "SUCCESS"} =>
       /\ pc[i] = "exited"
       /\ exitCode[i] = 1
       /\ EndsWithError(i, "Funding failed:")
       /\ Cardinality(CallsOf(i, "TransferTransaction.execute")) = 1
       /\ CallsOf(i, "AccountInfoQuery") = {}
       /\ CallsOf(i, "EthereumTransaction.execute") = {}
       /\ calls[i][Len(calls[i])].op = "TransferTransaction.getReceipt"
       /\ ~Printed(i, "Contract Address:")
       /\ local[i].contractAddress = NoAddress

\* A run ended by a rejected funding transfer to an absent account.
C6_Witness ==
  \E i \in Inst :
    /\ FundingReceipt(i) = "INSUFFICIENT_PAYER_BALANCE"
    /\ ~local[i].exists
    /\ exitCode[i] = 1

\* C7: every run that ends with exit code 0 has printed a contract address,
\* the transaction identifier of its submission, and the explorer URL
\* https://hashscan.io/<network>/transaction/<id> with the network its
\* client was built for and that transaction identifier.
C7_ExplorerUrlNamesSelectedNetwork ==
  \A i \in Inst :
    exitCode[i] = 0 =>
       /\ \E n \in LinesOf(i, "Contract Address:") :
            log[i][n].arg = local[i].contractAddress
       /\ \E n \in LinesOf(i, "Transaction ID  :") :
            log[i][n].arg = calls[i][SubmissionOf(i)].ret
       /\ \E n \in LinesOf(i, "Explorer:") :
            log[i][n].arg =
              <<"https://hashscan.io/", local[i].client, "/transaction/",
                calls[i][SubmissionOf(i)].ret>>

\* The same, for the three networks hashscan.io serves.
C7_ExplorerUrlOnPresets ==
  \A i \in Inst :
    (exitCode[i] = 0 /\ local[i].client \in {"mainnet", "testnet", "previewnet"}) =>
       \E n \in LinesOf(i, "Explorer:") :
         log[i][n].arg =
           <<"https://hashscan.io/", local[i].client, "/transaction/",
             calls[i][SubmissionOf(i)].ret>>


\* Run i made the follow-up nonce read (the one after its submission) and
\* the read failed.
FollowUpFailed(i) ==
  \E k \in CallsOf(i, "AccountInfoQuery") :
    /\ SubmissionOf(i) # 0
    /\ k > SubmissionOf(i)
    /\ ~calls[i][k].ret.ok

\* C8: a run whose follow-up nonce read failed is not aborted by it: it
\* ends with exit code 0 and no error line, and its output has the contract
\* address and the transaction identifier, in that order, before the
\* explorer URL.
C8_FollowUpFailureNotFatal ==
  \A i \in Inst :
    FollowUpFailed(i) =>
       /\ pc[i] = "exited"
       /\ exitCode[i] = 0
       /\ ~Printed(i, "Error:")
       /\ \E a \in LinesOf(i, "Contract Address:") :
            \E t \in LinesOf(i, "Transaction ID  :") :
              \E e \in LinesOf(i, "Explorer:") :
                /\ a < t
                /\ t < e
                /\ log[i][a].arg = local[i].contractAddress
                /\ log[i][t].arg = local[i].transactionId
       /\ log[i][Len(log[i])].text = "Done."

\* A run that ended after a failed follow-up read.
C8_Witness ==
  \E i \in Inst : FollowUpFailed(i) /\ pc[i] = "exited"

\* C9 as claimed: a run whose follow-up nonce read failed has written a
\* line about it, between the transaction identifier and the explorer URL.
C9_FollowUpFailureLogged ==
  \A i \in Inst :
    FollowUpFailed(i) =>
       \E t \in LinesOf(i, "Transaction ID  :") :
         /\ t + 1 \in DOMAIN log[i]
         /\ log[i][t + 1].text # "Explorer:"

\* C9 as amended: a run whose follow-up nonce read failed has written
\* nothing about it: the explorer URL directly follows the transaction
\* identifier, "Done." ends the output, and no line names the nonce after
\* the deployment.
C9_FollowUpFailureSilent ==
  \A i \in Inst :
    FollowUpFailed(i) =>
       /\ \A t \in LinesOf(i, "Transaction ID  :") :
            /\ Len(log[i]) = t + 2
            /\ log[i][t + 1].text = "Explorer:"
            /\ log[i][t + 2].text = "Done."
       /\ \A n \in DOMAIN log[i] : log[i][n].stream = "stdout"
       /\ ~Printed(i, "Signer ethereumNonce AFTER deployment:")

\* A run whose follow-up read failed although its first read succeeded on
\* an account it had to fund.
C9_Witness ==
  \E i \in Inst :
    /\ FollowUpFailed(i)
    /\ FundingReceipt(i) = "SUCCESS"
    /\ Printed(i, "Transaction ID  :")

RerunAfterAnyFundingNoOp ==
  \A j \in Inst :
    (\E i \in Inst \ {j} :
        /\ FundingReceipt(i) = "SUCCESS"
        /\ CallsOf(j, "AccountBalanceQuery") # {}
        /\ pc[i] = "exited") =>
      CallsOf(j, "TransferTransaction.execute") = {}


\* Without the condition on other creations the statement is too strong: a
\* creation by another run between the nonce read and the submission moves
\* the ledger's nonce, and the reported address is not the deployed one.
ReportedIsDeployedAlways ==
  \A i \in Inst :
    Printed(i, "Contract Address:") =>
       \A n \in LinesOf(i, "Contract Address:") : log[i][n].arg = hist[i].deployedAt


\* The shortfall the alias account started with: max(T - B, 0).
InitialShortfall == Max(minHbar * TinybarsPerHbar - ledger.openingBalance, 0)

\* No gas has been charged to the alias account: its balance is what it
\* started with plus what the funding transfers credited.
NoGasCharged == ledger.balance = ledger.openingBalance + ledger.aliasCredited

\* The shortfall run i observed at its balance query (0 before the query).
ObservedShortfall(i) ==
  LET asked == CallsOf(i, "AccountBalanceQuery")
  IN  IF asked = {} THEN 0
      ELSE Max(minHbar * TinybarsPerHbar
                 - calls[i][CHOOSE q \in asked : TRUE].ret.tinybars, 0)

====
